---- MODULE Spec2Model ----
(***************************************************************************)
(* Model of the two command line tools of gif_tools:                       *)
(*   gif_creator.py  (main, convert_mp4_to_gif)                            *)
(*   gif_looper.py   (main, make_gif_loop)                                 *)
(* Paths are sequences of one-character strings, so that str.lower(),      *)
(* str.endswith(), os.path.splitext() and glob matching are computed on    *)
(* the characters.  The media libraries (moviepy, Pillow) are collaborators*)
(* whose calls either return or raise; what the scripts hand to them and   *)
(* which handles the scripts close is the state of the model.              *)
(***************************************************************************)
EXTENDS Integers, Sequences, FiniteSets, TLC

VARIABLES
    pc,              \* position of the running script
    argv,            \* parsed command line of the running tool
    printed,         \* kinds of lines written to standard output so far
    exit_status,     \* -1 while running, else the process exit status
    raised,          \* condition propagating to main: "none" or its class
    raised_from,     \* "none", "convert" (conversion routine) or "main"
    returned,        \* <<>> or the path returned by the conversion routine
    outFile,         \* state of the output file on disk
    output_path,     \* output path in use (<<>> before it is decided)
    expanded_inputs, \* gif_creator.main: inputs after glob expansion
    valid_paths,     \* convert_mp4_to_gif: valid_paths
    fps,             \* convert_mp4_to_gif: fps after preset resolution
    resize_factor,   \* convert_mp4_to_gif: resize_factor in tenths
    handles,         \* every clip handle created so far, in creation order
    closed,          \* indices of handles on which close() was called
    video_clips,     \* convert_mp4_to_gif: video_clips (handle indices)
    cur,             \* convert_mp4_to_gif: clip (handle index), 0 if none
    i,               \* convert_mp4_to_gif: loop counter of enumerate(.., 1)
    target_size,     \* convert_mp4_to_gif: target_size, <<>> until computed
    final_video,     \* convert_mp4_to_gif: final_video (handle index)
    encoded,         \* <<>> or the arguments of the write_gif / save call
    img,             \* gif_looper: the opened image (frames, format, pos)
    frames,          \* make_gif_loop: frames (copies, by pixel identity)
    durations,       \* make_gif_loop: durations
    img_open,        \* gif_looper: "never", "open" or "closed" image handle
    run,             \* gif_looper: 1 for the first run, 2 for the re-run
    prev_out         \* gif_looper: what the first run wrote

vars == <<pc, argv, printed, exit_status, raised, raised_from, returned,
          outFile, output_path, expanded_inputs, valid_paths, fps,
          resize_factor, handles, closed, video_clips, cur, i, target_size,
          final_video, encoded, img, frames, durations, img_open, run,
          prev_out>>

creatorVars == <<expanded_inputs, valid_paths, fps, resize_factor, handles,
                 closed, video_clips, cur, i, target_size, final_video>>

looperVars == <<img, frames, durations, img_open, run, prev_out>>

----------------------------------------------------------------------------
(* Bounds of the model *)

MaxInputs == 2

MaxFrames == 3

----------------------------------------------------------------------------
(* Strings *)

\* str.lower() on one character
LowerChar(c) ==
    CASE c = "B" -> "b"
      [] c = "M" -> "m"
      [] c = "P" -> "p"
      [] OTHER -> c

\* str.lower()
Lower(s) == [k \in 1..Len(s) |-> LowerChar(s[k])]

\* str.endswith(suffix)
EndsWith(s, suf) ==
    /\ Len(s) >= Len(suf)
    /\ SubSeq(s, Len(s) - Len(suf) + 1, Len(s)) = suf

\* code point of a character (ord)
CharCode(c) ==
    CASE c = "*" -> 42
      [] c = "." -> 46
      [] c = "4" -> 52
      [] c = "?" -> 63
      [] c = "B" -> 66
      [] c = "M" -> 77
      [] c = "P" -> 80
      [] c = "a" -> 97
      [] c = "c" -> 99
      [] c = "f" -> 102
      [] c = "g" -> 103
      [] c = "i" -> 105
      [] c = "m" -> 109
      [] c = "p" -> 112
      [] c = "x" -> 120
      [] OTHER -> 0

RECURSIVE StrLess(_, _)
\* s < t for Python strings (lexicographic by code point)
StrLess(s, t) ==
    IF t = <<>> THEN FALSE
    ELSE IF s = <<>> THEN TRUE
    ELSE IF CharCode(Head(s)) # CharCode(Head(t))
         THEN CharCode(Head(s)) < CharCode(Head(t))
         ELSE StrLess(Tail(s), Tail(t))

RECURSIVE Sorted(_)
\* sorted(matches) for a set of distinct strings
Sorted(S) ==
    IF S = {} THEN <<>>
    ELSE LET m == CHOOSE x \in S : \A y \in S \ {x} : StrLess(x, y)
         IN  <<m>> \o Sorted(S \ {m})

RECURSIVE LastDot(_, _)
\* s.rfind('.') restricted to positions 1..k, 0 when there is none
LastDot(s, k) ==
    IF k = 0 THEN 0
    ELSE IF s[k] = "." THEN k
    ELSE LastDot(s, k - 1)

\* os.path.splitext(p)[0] for a path without directory part: the extension
\* starts at the last dot, unless that dot is the leading character
SplitextRoot(p) ==
    LET d == LastDot(p, Len(p))
    IN  IF d > 1 THEN SubSeq(p, 1, d - 1) ELSE p

RECURSIVE GlobMatch(_, _)
\* fnmatch of a file name against a pattern of literals, '*' and '?'
GlobMatch(pat, name) ==
    IF pat = <<>> THEN name = <<>>
    ELSE IF Head(pat) = "*"
         THEN \/ GlobMatch(Tail(pat), name)
              \/ name # <<>> /\ GlobMatch(pat, Tail(name))
    ELSE IF name = <<>> THEN FALSE
    ELSE IF Head(pat) = "?" THEN GlobMatch(Tail(pat), Tail(name))
    ELSE Head(pat) = Head(name) /\ GlobMatch(Tail(pat), Tail(name))

\* '*' in pattern or '?' in pattern
HasMagic(pattern) ==
    \E k \in 1..Len(pattern) : pattern[k] = "*" \/ pattern[k] = "?"

----------------------------------------------------------------------------
(* The file system the tools run against *)

A_MP4 == <<"a", ".", "m", "p", "4">>
B_MP4 == <<"B", ".", "M", "P", "4">>
A_GIF == <<"a", ".", "g", "i", "f">>
X_MP4 == <<"x", ".", "m", "p", "4">>
PAT_A == <<"a", "*">>
PAT_NONE == <<"?">>
OUT_GIF == <<"o", ".", "g", "i", "f">>
DOT_GIF == <<".", "g", "i", "f">>
DOT_MP4 == <<".", "m", "p", "4">>
LOOPED_GIF == <<"_", "l", "o", "o", "p", "e", "d", ".", "g", "i", "f">>
COMBINED_GIF == <<"c", "o", "m", "b", "i", "n", "e", "d", "_", "v", "i", "d",
                  "e", "o", ".", "g", "i", "f">>

\* files present on disk: os.path.exists(p) is p \in ExistingFiles
ExistingFiles == {A_MP4, B_MP4, A_GIF}

\* glob.glob(pattern): the existing files the pattern matches
Glob(pattern) == {f \in ExistingFiles : GlobMatch(pattern, f)}

----------------------------------------------------------------------------
(* Arithmetic of convert_mp4_to_gif.  The script computes with IEEE-754    *)
(* doubles and truncates with int(); the operators below compute the same  *)
(* integers from the exact rational value and the direction in which the   *)
(* double operations round it.                                             *)

RECURSIVE FloorLog2(_)
\* floor(log2(k)) for k >= 1
FloorLog2(k) == IF k < 2 THEN 0 ELSE 1 + FloorLog2(k \div 2)

RECURSIVE Pow2(_)
Pow2(e) == IF e = 0 THEN 1 ELSE 2 * Pow2(e - 1)

RECURSIVE Pow2Mod(_, _)
\* 2^e mod m
Pow2Mod(e, m) == IF e = 0 THEN 1 % m ELSE (2 * Pow2Mod(e - 1, m)) % m

\* int(n * resize_factor) for n >= 0 and resize_factor = f10 / 10 in
\* {0.5, 0.7, 1.0}.  0.5 and 1.0 are exact doubles.  The double nearest to
\* 0.7 is 0.7 - 0.4 * 2^-53, so n * 0.7 lies 0.4 * n * 2^-53 below the real
\* product; when the real product is an integer k and that gap exceeds half
\* the spacing of doubles below k, the product rounds below k and int()
\* yields k - 1.
IntMulFactor(n, f10) ==
    LET k == (f10 * n) \div 10
    IN  IF f10 = 7 /\ n > 0 /\ n % 10 = 0 /\ 2 * n > 5 * Pow2(FloorLog2(k))
        THEN k - 1
        ELSE k

RECURSIVE QuotExp(_, _, _)
\* floor(log2(W / w)) for W, w >= 1, searched from exponent e
QuotExp(W, w, e) ==
    IF W >= w
    THEN IF W >= w * Pow2(e + 1) THEN QuotExp(W, w, e + 1) ELSE e
    ELSE IF W * Pow2(0 - e) < w THEN QuotExp(W, w, e - 1) ELSE e

\* int((W / w) * h) for W, w, h >= 1.  q = W / w is rounded to 53 bits; the
\* sign and size of its error, times h, decide on which side of the exact
\* integer k = W * h / w the product lands and whether it rounds back to k.
IntDivMulPos(W, w, h) ==
    LET k   == (W * h) \div w
        eq  == QuotExp(W, w, IF W >= w THEN 0 ELSE 0 - 1)
        s   == 52 - eq
        rem == (W * Pow2Mod(s, w)) % w
        par == ((W * Pow2Mod(s, 2 * w)) % (2 * w)) \div w
        dn  == 2 * rem < w \/ (2 * rem = w /\ par = 0)
        t   == h * rem
        e   == FloorLog2(k)
        e1  == IF k = Pow2(e) THEN e - 1 ELSE e
        a0  == 2 * t
        a1  == IF eq >= 0 THEN a0 * Pow2(eq) ELSE a0
        b1  == IF eq >= 0 THEN w ELSE w * Pow2(0 - eq)
        a2  == IF e1 >= 0 THEN a1 ELSE a1 * 2
        b2  == IF e1 >= 0 THEN b1 * Pow2(e1) ELSE b1
    IN  IF (W * h) % w # 0 \/ rem = 0 \/ ~dn \/ k = 0 THEN k
        ELSE IF a2 > b2 THEN k - 1 ELSE k

\* int((width / w) * h): int() truncates toward zero and double arithmetic
\* is symmetric in the sign
IntDivMul(W, w, h) ==
    IF W >= 0 THEN IntDivMulPos(W, w, h) ELSE 0 - IntDivMulPos(0 - W, w, h)

\* EnsureEven rounding an odd value up instead of down
EnsureEvenUp(n) == IF n % 2 = 0 THEN n ELSE n + 1

\* gif_creator.py:110-111   n if n % 2 == 0 else n - 1
EnsureEven(n) == IF n % 2 = 0 THEN n ELSE n - 1

\* quality_settings, gif_creator.py:68-72
QualityNames == {"low", "medium", "high"}

QualityFps(q) == CASE q = "low" -> 8 [] q = "medium" -> 10 [] q = "high" -> 15

QualityFactor(q) ==
    CASE q = "low" -> 5 [] q = "medium" -> 7 [] q = "high" -> 10

\* the tool's own default of --fps
DefaultFps == 10

\* resize_factor when quality is not a preset name
DefaultFactor == 7

\* ResolveFps letting the preset win over an explicit --fps
ResolveFpsPresetWins(f, q) ==
    IF q \in QualityNames THEN QualityFps(q) ELSE f

\* gif_creator.py:74-77  fps after preset resolution
ResolveFps(f, q) ==
    IF q \in QualityNames
    THEN IF f = DefaultFps THEN QualityFps(q) ELSE f
    ELSE f

\* gif_creator.py:74-80  resize_factor (in tenths)
ResolveFactor(q) ==
    IF q \in QualityNames THEN QualityFactor(q) ELSE DefaultFactor

\* truth value of the width argument: None and 0 are false
WidthGiven(width) == width # <<>> /\ width[1] # 0

\* gif_creator.py:102-112  target_size from the first clip's size
TargetSize(width, dims, f10) ==
    LET new_width  == IF WidthGiven(width) THEN width[1]
                      ELSE IntMulFactor(dims[1], f10)
        new_height == IF WidthGiven(width)
                      THEN IntDivMul(width[1], dims[1], dims[2])
                      ELSE IntMulFactor(dims[2], f10)
    IN  <<EnsureEven(new_width), EnsureEven(new_height)>>

\* original_size != target_size: a Python list never equals a tuple
SizeDiffers(size, target) ==
    size.type # "tuple" \/ size.dims # target

----------------------------------------------------------------------------
(* gif_creator.py *)

\* native sizes a video file can report
Sizes == {<<640, 480>>, <<448, 336>>}

\* clip.size is the sequence the video library returns; whether it is a
\* list or a tuple is the library's choice
SizeTypes == {"list", "tuple"}

\* option settings of a run: output, --fps, --width, --quality
CreatorOptions ==
    { [output |-> <<>>,    fps |-> 10, width |-> <<>>,    quality |-> "medium"],
      [output |-> OUT_GIF, fps |-> 10, width |-> <<0>>,   quality |-> "low"],
      [output |-> <<>>,    fps |-> 10, width |-> <<>>,    quality |-> "high"],
      [output |-> <<>>,    fps |-> 12, width |-> <<>>,    quality |-> "low"],
      [output |-> <<>>,    fps |-> 12, width |-> <<640>>, quality |-> "medium"],
      [output |-> OUT_GIF, fps |-> 12, width |-> <<448>>, quality |-> "high"] }

CreatorTokens == {A_MP4, B_MP4, A_GIF, X_MP4, PAT_A, PAT_NONE}

RECURSIVE SeqsUpTo(_, _)
\* the sequences over S of length 1..n
SeqsUpTo(S, n) ==
    IF n = 0 THEN {}
    ELSE LET shorter == SeqsUpTo(S, n - 1)
         IN  {<<x>> : x \in S} \cup shorter
                \cup {Append(q, x) : q \in shorter, x \in S}

NoLooper ==
    /\ img = [format |-> "GIF", info |-> <<>>, pos |-> 0]
    /\ frames = <<>>
    /\ durations = <<>>
    /\ img_open = "never"
    /\ run = 1
    /\ prev_out = <<>>

NoCreator ==
    /\ expanded_inputs = <<>>
    /\ valid_paths = <<>>
    /\ fps = 0
    /\ resize_factor = 0
    /\ handles = <<>>
    /\ closed = {}
    /\ video_clips = <<>>
    /\ cur = 0
    /\ i = 0
    /\ target_size = <<>>
    /\ final_video = 0

Common0 ==
    /\ printed = {}
    /\ exit_status = -1
    /\ raised = "none"
    /\ raised_from = "none"
    /\ returned = <<>>
    /\ output_path = <<>>
    /\ encoded = <<>>

\* the state when gif_creator.main starts
InitCreator ==
    /\ pc = "main"
    /\ Common0
    /\ NoCreator
    /\ NoLooper
    /\ outFile \in {"absent", "old"}
    /\ \/ argv = [noargs |-> TRUE, inputs |-> <<>>, output |-> <<>>,
                  fps |-> DefaultFps, width |-> <<>>, quality |-> "medium"]
       \/ \E ins \in SeqsUpTo(CreatorTokens, MaxInputs),
             o \in CreatorOptions :
             argv = [noargs |-> FALSE, inputs |-> ins, output |-> o.output,
                     fps |-> o.fps, width |-> o.width,
                     quality |-> o.quality]

RECURSIVE ExpandInputs(_)
\* gif_creator.py:215-224  glob expansion of the positional arguments
ExpandInputs(patterns) ==
    IF patterns = <<>> THEN <<>>
    ELSE LET pattern == Head(patterns)
             here == IF HasMagic(pattern) THEN Sorted(Glob(pattern))
                     ELSE <<pattern>>
         IN  here \o ExpandInputs(Tail(patterns))

\* patterns for which "No files match pattern" is printed
Unmatched(patterns) ==
    {k \in 1..Len(patterns) :
        HasMagic(patterns[k]) /\ Glob(patterns[k]) = {}}

\* gif_creator.py:207-249  main up to the call of convert_mp4_to_gif
MainStart ==
    /\ pc = "main"
    /\ IF argv.noargs
       THEN /\ printed' = printed \cup {"help"}
            /\ exit_status' = 1
            /\ pc' = "exit"
            /\ UNCHANGED expanded_inputs
       ELSE LET exp == ExpandInputs(argv.inputs)
                warn == IF Unmatched(argv.inputs) # {}
                        THEN {"warn_nomatch"} ELSE {}
                mp4_files == SelectSeq(exp,
                                 LAMBDA f : EndsWith(Lower(f), DOT_MP4))
            IN  /\ expanded_inputs' = exp
                /\ IF exp = <<>>
                   THEN /\ printed' = printed \cup warn \cup {"no_inputs"}
                        /\ exit_status' = 1
                        /\ pc' = "exit"
                   ELSE /\ printed' = printed \cup warn
                             \cup (IF mp4_files = <<>>
                                   THEN {"warn_no_mp4"} ELSE {})
                             \cup (IF Len(exp) > 1
                                   THEN {"processing_list"} ELSE {})
                        /\ exit_status' = exit_status
                        /\ pc' = "validate"
    /\ UNCHANGED <<argv, raised, raised_from, returned, outFile, output_path,
                   valid_paths, fps, resize_factor, handles, closed,
                   video_clips, cur, i, target_size, final_video, encoded>>
    /\ UNCHANGED looperVars

RECURSIVE ValidPathsNoLower(_)
\* the validation loop comparing the extension without lower()
ValidPathsNoLower(input_paths) ==
    IF input_paths = <<>> THEN <<>>
    ELSE LET path == Head(input_paths)
             rest == ValidPathsNoLower(Tail(input_paths))
         IN  IF path \notin ExistingFiles THEN rest
             ELSE IF ~EndsWith(path, DOT_MP4) THEN rest
             ELSE <<path>> \o rest

RECURSIVE ValidPathsNoExists(_)
\* the validation loop without the os.path.exists test
ValidPathsNoExists(input_paths) ==
    IF input_paths = <<>> THEN <<>>
    ELSE LET path == Head(input_paths)
             rest == ValidPathsNoExists(Tail(input_paths))
         IN  IF ~EndsWith(Lower(path), DOT_MP4) THEN rest
             ELSE <<path>> \o rest

RECURSIVE ValidPaths(_)
\* gif_creator.py:44-52  the validation loop
ValidPaths(input_paths) ==
    IF input_paths = <<>> THEN <<>>
    ELSE LET path == Head(input_paths)
             rest == ValidPaths(Tail(input_paths))
         IN  IF path \notin ExistingFiles THEN rest
             ELSE IF ~EndsWith(Lower(path), DOT_MP4) THEN rest
             ELSE <<path>> \o rest

\* warnings printed by the validation loop
ValidationWarnings(input_paths) ==
    (IF \E k \in 1..Len(input_paths) : input_paths[k] \notin ExistingFiles
     THEN {"warn_missing"} ELSE {})
    \cup
    (IF \E k \in 1..Len(input_paths) :
            /\ input_paths[k] \in ExistingFiles
            /\ ~EndsWith(Lower(input_paths[k]), DOT_MP4)
     THEN {"warn_not_mp4"} ELSE {})

\* gif_creator.py:58-65  output path when none is given (paths here have no
\* directory part, so os.path.dirname is '' and os.path.join adds nothing)
DeriveOutput(out, valid) ==
    IF out # <<>> THEN out
    ELSE IF Len(valid) = 1 THEN SplitextRoot(valid[1]) \o DOT_GIF
    ELSE COMBINED_GIF

\* gif_creator.py:44-86  convert_mp4_to_gif up to the loading loop
ConvertValidate ==
    /\ pc = "validate"
    /\ LET valid == ValidPaths(expanded_inputs)
       IN  /\ valid_paths' = valid
           /\ IF valid = <<>>
              THEN /\ raised' = "FileNotFoundError"
                   /\ raised_from' = "convert"
                   /\ pc' = "handler"
                   /\ printed' = printed
                         \cup ValidationWarnings(expanded_inputs)
                   /\ UNCHANGED <<output_path, fps, resize_factor, i>>
              ELSE /\ output_path' = DeriveOutput(argv.output, valid)
                   /\ fps' = ResolveFps(argv.fps, argv.quality)
                   /\ resize_factor' = ResolveFactor(argv.quality)
                   /\ i' = 1
                   /\ pc' = "load"
                   /\ printed' = printed
                         \cup ValidationWarnings(expanded_inputs)
                         \cup {"loading"}
                   /\ UNCHANGED <<raised, raised_from>>
    /\ UNCHANGED <<argv, exit_status, returned, outFile, expanded_inputs,
                   handles, closed, video_clips, cur, target_size,
                   final_video, encoded>>
    /\ UNCHANGED looperVars

\* the handle indices in a sequence of clips
ClipSet(clips) == {clips[k] : k \in 1..Len(clips)}

\* the clips a handle plays, in order: a concatenation plays its parts
Played(h) ==
    IF handles[h].kind = "concat" THEN handles[h].parts ELSE <<h>>

\* gif_creator.py:89-98  loop head, VideoFileClip(path), and the report of
\* duration, fps and size; the open can raise, and so can the report after
\* the clip was opened
LoadOpen ==
    /\ pc = "load"
    /\ i <= Len(valid_paths)
    /\ \/ \E d \in Sizes, t \in SizeTypes, reported \in BOOLEAN :
             /\ handles' = Append(handles,
                    [kind |-> "file", path |-> valid_paths[i],
                     size |-> [type |-> t, dims |-> d], src |-> 0,
                     parts |-> <<>>])
             /\ cur' = Len(handles) + 1
             /\ pc' = IF reported THEN "geom" ELSE "except"
       \/ /\ pc' = "except"
          /\ UNCHANGED <<handles, cur>>
    /\ UNCHANGED <<argv, printed, exit_status, raised, raised_from, returned,
                   outFile, output_path, expanded_inputs, valid_paths, fps,
                   resize_factor, closed, video_clips, i, target_size,
                   final_video, encoded>>
    /\ UNCHANGED looperVars

\* gif_creator.py:100-122  target size from the first clip, then resize
LoadResize ==
    /\ pc = "geom"
    /\ LET original_size == handles[cur].size
           tgt == IF i = 1
                  THEN TargetSize(argv.width, original_size.dims,
                                  resize_factor)
                  ELSE target_size
       IN  /\ target_size' = tgt
           /\ printed' = IF i = 1 THEN printed \cup {"target"} ELSE printed
           /\ IF SizeDiffers(original_size, tgt)
              THEN \/ /\ handles' = Append(handles,
                            [kind |-> "resized", path |-> handles[cur].path,
                             size |-> [type |-> "tuple", dims |-> tgt],
                             src |-> cur, parts |-> <<>>])
                      /\ video_clips' = Append(video_clips, Len(handles) + 1)
                      /\ i' = i + 1
                      /\ pc' = "load"
                   \/ /\ pc' = "except"
                      /\ UNCHANGED <<handles, video_clips, i>>
              ELSE /\ video_clips' = Append(video_clips, cur)
                   /\ i' = i + 1
                   /\ pc' = "load"
                   /\ UNCHANGED handles
    /\ UNCHANGED <<argv, exit_status, raised, raised_from, returned, outFile,
                   output_path, expanded_inputs, valid_paths, fps,
                   resize_factor, closed, cur, final_video, encoded>>
    /\ UNCHANGED looperVars

\* the larger of two integers
Max(a, b) == IF a >= b THEN a ELSE b

RECURSIVE ComposeSize(_)
\* size of concatenate_videoclips(clips, method="compose"): the largest
\* width and the largest height among the clips
ComposeSize(clips) ==
    IF clips = <<>> THEN <<0, 0>>
    ELSE LET d == handles[Head(clips)].size.dims
             r == ComposeSize(Tail(clips))
         IN  <<Max(d[1], r[1]), Max(d[2], r[2])>>

\* gif_creator.py:124-133  end of the loop and concatenation
Concatenate ==
    /\ pc = "load"
    /\ i > Len(valid_paths)
    /\ IF Len(video_clips) = 1
       THEN /\ final_video' = video_clips[1]
            /\ printed' = printed \cup {"total", "single"}
            /\ pc' = "write"
            /\ UNCHANGED handles
       ELSE \/ /\ handles' = Append(handles,
                     [kind |-> "concat", path |-> <<>>,
                      size |-> [type |-> "tuple",
                                dims |-> ComposeSize(video_clips)],
                      src |-> 0, parts |-> video_clips])
               /\ final_video' = Len(handles) + 1
               /\ printed' = printed \cup {"total", "stitching"}
               /\ pc' = "write"
            \/ /\ printed' = printed \cup {"total", "stitching"}
               /\ pc' = "except"
               /\ UNCHANGED <<handles, final_video>>
    /\ UNCHANGED <<argv, exit_status, raised, raised_from, returned, outFile,
                   output_path, expanded_inputs, valid_paths, fps,
                   resize_factor, closed, video_clips, cur, i, target_size,
                   encoded>>
    /\ UNCHANGED looperVars

\* gif_creator.py:136-140  final_video.write_gif(output_path, fps, loop=0);
\* a write that raises leaves the file untouched or partly written
WriteGif ==
    /\ pc = "write"
    /\ \/ /\ encoded' = [path |-> output_path, clips |-> Played(final_video),
                         fps |-> fps, loop |-> 0]
          /\ outFile' = "complete"
          /\ pc' = "cleanup"
       \/ /\ outFile' \in {outFile, "partial"}
          /\ pc' = "except"
          /\ UNCHANGED encoded
    /\ UNCHANGED <<argv, printed, exit_status, raised, raised_from, returned,
                   output_path>>
    /\ UNCHANGED creatorVars
    /\ UNCHANGED looperVars

\* gif_creator.py:143-146  cleanup on the success path
Cleanup ==
    /\ pc = "cleanup"
    /\ closed' = closed \cup ClipSet(video_clips)
                    \cup (IF Len(video_clips) > 1 THEN {final_video} ELSE {})
    /\ pc' = "getsize"
    /\ UNCHANGED <<argv, printed, exit_status, raised, raised_from, returned,
                   outFile, output_path, expanded_inputs, valid_paths, fps,
                   resize_factor, handles, video_clips, cur, i, target_size,
                   final_video, encoded>>
    /\ UNCHANGED looperVars

\* gif_creator.py:149-157  os.path.getsize, the summary and the return
OutputInfo ==
    /\ pc = "getsize"
    /\ \/ /\ printed' = printed \cup {"success"}
          /\ returned' = output_path
          /\ pc' = "main_after"
       \/ /\ pc' = "except"
          /\ UNCHANGED <<printed, returned>>
    /\ UNCHANGED <<argv, exit_status, raised, raised_from, outFile,
                   output_path, encoded>>
    /\ UNCHANGED creatorVars
    /\ UNCHANGED looperVars

\* gif_creator.py:159-166  the except clause of convert_mp4_to_gif
ConvertExcept ==
    /\ pc = "except"
    /\ closed' = closed \cup ClipSet(video_clips)
    /\ raised' = "Exception"
    /\ raised_from' = "convert"
    /\ pc' = "handler"
    /\ UNCHANGED <<argv, printed, exit_status, returned, outFile,
                   output_path, expanded_inputs, valid_paths, fps,
                   resize_factor, handles, video_clips, cur, i, target_size,
                   final_video, encoded>>
    /\ UNCHANGED looperVars

\* gif_creator.py:251-263  main after convert_mp4_to_gif returned; the
\* os.path.getsize of main can itself raise
MainAfter ==
    /\ pc = "main_after"
    /\ \/ \E big \in BOOLEAN :
             /\ printed' = printed \cup {"done"}
                    \cup (IF big THEN {"tip"} ELSE {})
             /\ exit_status' = 0
             /\ pc' = "exit"
             /\ UNCHANGED <<raised, raised_from>>
       \/ \E e \in {"FileNotFoundError", "Exception"} :
             /\ printed' = printed \cup {"done"}
             /\ raised' = e
             /\ raised_from' = "main"
             /\ pc' = "handler"
             /\ UNCHANGED exit_status
    /\ UNCHANGED <<argv, returned, outFile, output_path, encoded>>
    /\ UNCHANGED creatorVars
    /\ UNCHANGED looperVars

\* main printing the dependency reminder in both except clauses
MainHandlerAlwaysReminds ==
    /\ pc = "handler"
    /\ printed' = printed \cup {"error", "deps"}
    /\ exit_status' = 1
    /\ pc' = "exit"
    /\ UNCHANGED <<argv, raised, raised_from, returned, outFile,
                   output_path, encoded>>
    /\ UNCHANGED creatorVars
    /\ UNCHANGED looperVars

\* gif_creator.py:265-272  the two except clauses of main
MainHandler ==
    /\ pc = "handler"
    /\ printed' = IF raised = "FileNotFoundError"
                  THEN printed \cup {"error"}
                  ELSE printed \cup {"error", "deps"}
    /\ exit_status' = 1
    /\ pc' = "exit"
    /\ UNCHANGED <<argv, raised, raised_from, returned, outFile,
                   output_path, encoded>>
    /\ UNCHANGED creatorVars
    /\ UNCHANGED looperVars

NextCreator ==
    \/ MainStart
    \/ ConvertValidate
    \/ LoadOpen
    \/ LoadResize
    \/ Concatenate
    \/ WriteGif
    \/ Cleanup
    \/ OutputInfo
    \/ ConvertExcept
    \/ MainAfter
    \/ MainHandler

SpecCreator == InitCreator /\ [][NextCreator]_vars

----------------------------------------------------------------------------
(* gif_looper.py *)

\* img.info of one frame: <<>> without duration metadata, else <<ms>>
FrameInfos == {<<>>, <<40>>, <<70>>}

Formats == {"GIF", "PNG"}

\* the duration make_gif_loop records when the frame declares none
DefaultDuration == 100

LooperInputs == {A_GIF, X_MP4}

\* the state when gif_looper.main starts
InitLooper ==
    /\ pc = "lmain"
    /\ Common0
    /\ NoCreator
    /\ NoLooper
    /\ outFile \in {"absent", "old"}
    /\ \/ argv = [noargs |-> TRUE, input |-> <<>>, output |-> <<>>]
       \/ \E in \in LooperInputs, out \in {<<>>, OUT_GIF} :
             argv = [noargs |-> FALSE, input |-> in, output |-> out]

\* os.path.exists for the rewriter: the files on disk and, in a re-run,
\* the file the first run wrote
LooperExists(p) ==
    \/ p \in ExistingFiles
    \/ prev_out # <<>> /\ p = prev_out.path

\* gif_looper.py:112-120 and 34-41  main and the head of make_gif_loop
LooperStart ==
    /\ pc = "lmain"
    /\ IF argv.noargs
       THEN /\ printed' = printed \cup {"help"}
            /\ exit_status' = 1
            /\ pc' = "lexit"
            /\ UNCHANGED <<raised, raised_from, output_path>>
       ELSE IF ~LooperExists(argv.input)
       THEN /\ raised' = "FileNotFoundError"
            /\ raised_from' = "convert"
            /\ pc' = "lhandler"
            /\ UNCHANGED <<printed, exit_status, output_path>>
       ELSE /\ output_path' = IF argv.output # <<>> THEN argv.output
                              ELSE SplitextRoot(argv.input) \o LOOPED_GIF
            /\ pc' = "lopen"
            /\ UNCHANGED <<printed, exit_status, raised, raised_from>>
    /\ UNCHANGED <<argv, returned, outFile, encoded>>
    /\ UNCHANGED creatorVars
    /\ UNCHANGED looperVars

\* the decoded content of the input file: any image of 1..MaxFrames frames
\* on the first run, the image the first run encoded on the re-run
InputImages ==
    IF run = 1
    THEN {[format |-> f, info |-> d, px |-> [k \in 1..Len(d) |-> k],
           pos |-> 1] :
             f \in Formats, d \in SeqsUpTo(FrameInfos, MaxFrames)}
    ELSE {[format |-> "GIF",
           info |-> [k \in 1..Len(prev_out.durations) |->
                        <<prev_out.durations[k]>>],
           px |-> prev_out.frames, pos |-> 1]}

\* gif_looper.py:45-52  Image.open and the empty lists
LooperOpen ==
    /\ pc = "lopen"
    /\ \/ \E im \in InputImages :
             /\ img' = im
             /\ img_open' = "open"
             /\ frames' = <<>>
             /\ durations' = <<>>
             /\ printed' = IF im.format # "GIF"
                           THEN printed \cup {"warn_format"} ELSE printed
             /\ pc' = "lcopy"
       \/ /\ pc' = "lexcept"
          /\ UNCHANGED <<img, img_open, frames, durations, printed>>
    /\ UNCHANGED <<argv, exit_status, raised, raised_from, returned, outFile,
                   output_path, encoded, run, prev_out>>
    /\ UNCHANGED creatorVars

\* the duration of the first frame read for every frame
InfoDurationStale(im) ==
    IF im.info[1] = <<>> THEN DefaultDuration ELSE im.info[1][1]

\* img.info.get('duration', 100) at the current frame
InfoDuration(im) ==
    IF im.info[im.pos] = <<>> THEN DefaultDuration ELSE im.info[im.pos][1]

\* gif_looper.py:56-62  one frame is copied and its duration recorded
LooperCopy ==
    /\ pc = "lcopy"
    /\ \/ /\ frames' = Append(frames, img.px[img.pos])
          /\ durations' = Append(durations, InfoDuration(img))
          /\ pc' = "lseek"
          /\ UNCHANGED img_open
       \/ /\ img_open' = "closed"
          /\ pc' = "lexcept"
          /\ UNCHANGED <<frames, durations>>
    /\ UNCHANGED <<argv, printed, exit_status, raised, raised_from, returned,
                   outFile, output_path, encoded, img, run, prev_out>>
    /\ UNCHANGED creatorVars

\* the seek with EOFError not caught by the inner try
LooperSeekEofEscapes ==
    /\ pc = "lseek"
    /\ IF img.pos < Len(img.info)
       THEN \/ /\ img' = [img EXCEPT !.pos = img.pos + 1]
               /\ pc' = "lcopy"
               /\ UNCHANGED img_open
            \/ /\ img_open' = "closed"
               /\ pc' = "lexcept"
               /\ UNCHANGED img
       ELSE /\ img_open' = "closed"
            /\ pc' = "lexcept"
            /\ UNCHANGED img
    /\ UNCHANGED <<argv, printed, exit_status, raised, raised_from, returned,
                   outFile, output_path, encoded, frames, durations, run,
                   prev_out>>
    /\ UNCHANGED creatorVars

\* gif_looper.py:64-68  img.seek(img.tell() + 1): the next frame, a read
\* error, or EOFError past the last frame, which ends the loop
LooperSeek ==
    /\ pc = "lseek"
    /\ IF img.pos < Len(img.info)
       THEN \/ /\ img' = [img EXCEPT !.pos = img.pos + 1]
               /\ pc' = "lcopy"
               /\ UNCHANGED img_open
            \/ /\ img_open' = "closed"
               /\ pc' = "lexcept"
               /\ UNCHANGED img
       ELSE /\ pc' = "lsave"
            /\ UNCHANGED <<img, img_open>>
    /\ UNCHANGED <<argv, printed, exit_status, raised, raised_from, returned,
                   outFile, output_path, encoded, frames, durations, run,
                   prev_out>>
    /\ UNCHANGED creatorVars

\* gif_looper.py:71-88  frames[0].save(..., append_images=frames[1:],
\* duration=durations, loop=0), or ValueError when frames is empty
LooperSave ==
    /\ pc = "lsave"
    /\ IF frames # <<>>
       THEN \/ /\ encoded' = [path |-> output_path,
                              frames |-> <<frames[1]>> \o Tail(frames),
                              durations |-> durations, loop |-> 0]
               /\ outFile' = "complete"
               /\ pc' = "lsize"
               /\ UNCHANGED <<raised, img_open>>
            \/ /\ outFile' \in {outFile, "partial"}
               /\ img_open' = "closed"
               /\ pc' = "lexcept"
               /\ UNCHANGED <<encoded, raised>>
       ELSE /\ raised' = "ValueError"
            /\ img_open' = "closed"
            /\ pc' = "lexcept"
            /\ UNCHANGED <<encoded, outFile>>
    /\ UNCHANGED <<argv, printed, exit_status, raised_from, returned,
                   output_path, img, frames, durations, run, prev_out>>
    /\ UNCHANGED creatorVars

\* gif_looper.py:81-86  the summary (with os.path.getsize) and the return
LooperReport ==
    /\ pc = "lsize"
    /\ img_open' = "closed"
    /\ \/ /\ printed' = printed \cup {"success"}
          /\ returned' = output_path
          /\ pc' = "lmain_after"
       \/ /\ printed' = printed \cup {"success"}
          /\ pc' = "lexcept"
          /\ UNCHANGED returned
    /\ UNCHANGED <<argv, exit_status, raised, raised_from, outFile,
                   output_path, encoded, img, frames, durations, run,
                   prev_out>>
    /\ UNCHANGED creatorVars

\* gif_looper.py:90-91  the except clause of make_gif_loop
LooperExcept ==
    /\ pc = "lexcept"
    /\ raised' = "Exception"
    /\ raised_from' = "convert"
    /\ pc' = "lhandler"
    /\ UNCHANGED <<argv, printed, exit_status, returned, outFile,
                   output_path, encoded>>
    /\ UNCHANGED creatorVars
    /\ UNCHANGED looperVars

\* gif_looper.py:122-123  main after make_gif_loop returned
LooperMainAfter ==
    /\ pc = "lmain_after"
    /\ printed' = printed \cup {"done"}
    /\ exit_status' = 0
    /\ pc' = "lexit"
    /\ UNCHANGED <<argv, raised, raised_from, returned, outFile,
                   output_path, encoded>>
    /\ UNCHANGED creatorVars
    /\ UNCHANGED looperVars

\* gif_looper.py:125-130  the two except clauses of main
LooperHandler ==
    /\ pc = "lhandler"
    /\ printed' = printed \cup {"error"}
    /\ exit_status' = 1
    /\ pc' = "lexit"
    /\ UNCHANGED <<argv, raised, raised_from, returned, outFile,
                   output_path, encoded>>
    /\ UNCHANGED creatorVars
    /\ UNCHANGED looperVars

\* the rewriter is started again on the file its first run wrote
LooperRerun ==
    /\ pc = "lexit"
    /\ run = 1
    /\ exit_status = 0
    /\ run' = 2
    /\ prev_out' = encoded
    /\ argv' = [noargs |-> FALSE, input |-> encoded.path, output |-> <<>>]
    /\ pc' = "lmain"
    /\ printed' = {}
    /\ exit_status' = -1
    /\ raised' = "none"
    /\ raised_from' = "none"
    /\ returned' = <<>>
    /\ output_path' = <<>>
    /\ encoded' = <<>>
    /\ outFile' = "absent"
    /\ img' = [format |-> "GIF", info |-> <<>>, pos |-> 0]
    /\ frames' = <<>>
    /\ durations' = <<>>
    /\ img_open' = "never"
    /\ UNCHANGED creatorVars

NextLooper ==
    \/ LooperStart
    \/ LooperOpen
    \/ LooperCopy
    \/ LooperSeek
    \/ LooperSave
    \/ LooperReport
    \/ LooperExcept
    \/ LooperMainAfter
    \/ LooperHandler
    \/ LooperRerun

SpecLooper == InitLooper /\ [][NextLooper]_vars

----------------------------------------------------------------------------
(* Either tool is started from the command line *)

Init == InitCreator \/ InitLooper

Next == NextCreator \/ NextLooper

Spec == Init /\ [][Next]_vars

\* the running tool is gif_creator.py
RunsCreator == "inputs" \in DOMAIN argv

\* the running tool is gif_looper.py
RunsLooper == "input" \in DOMAIN argv

----------------------------------------------------------------------------
(* The geometry computation of convert_mp4_to_gif on its own, over a wider *)
(* range of native sizes, requested widths and quality arguments           *)

MaxDim == 12

MaxWidth == 5

GeomDims == (1..MaxDim) \cup {90, 180, 480, 640}

GeomWidths ==
    {<<>>, <<448>>} \cup {<<w>> : w \in (0 - MaxWidth)..MaxWidth}

InitGeom ==
    /\ pc = "geom_in"
    /\ Common0
    /\ NoCreator
    /\ NoLooper
    /\ outFile = "absent"
    /\ \E w \in GeomDims, h \in GeomDims, rw \in GeomWidths,
          q \in QualityNames \cup {"ultra"} :
          argv = [dims |-> <<w, h>>, width |-> rw, quality |-> q]

\* gif_creator.py:74-80 and 100-112 applied to the first clip
GeomApply ==
    /\ pc = "geom_in"
    /\ resize_factor' = ResolveFactor(argv.quality)
    /\ target_size' = TargetSize(argv.width, argv.dims,
                                 ResolveFactor(argv.quality))
    /\ pc' = "geom_out"
    /\ UNCHANGED <<argv, printed, exit_status, raised, raised_from, returned,
                   outFile, output_path, expanded_inputs, valid_paths, fps,
                   handles, closed, video_clips, cur, i, final_video,
                   encoded>>
    /\ UNCHANGED looperVars

SpecGeom == InitGeom /\ [][GeomApply]_vars

----------------------------------------------------------------------------
(* Properties *)

\* the path ends in .mp4, in any letter case
HasMp4Extension(p) ==
    /\ Len(p) >= 4
    /\ p[Len(p) - 3] = "."
    /\ p[Len(p) - 2] \in {"m", "M"}
    /\ p[Len(p) - 1] \in {"p", "P"}
    /\ p[Len(p)] = "4"

\* the sub-sequence of the paths that exist and end in .mp4
ExistingMp4s(paths) ==
    SelectSeq(paths, LAMBDA p : p \in ExistingFiles /\ HasMp4Extension(p))

\* convert_mp4_to_gif was called and is past its validation loop
PastValidation ==
    RunsCreator /\ expanded_inputs # <<>> /\ pc \notin {"main", "validate"}

\* the output file has not been touched by this run
OutputUntouched == outFile \in {"absent", "old"} /\ encoded = <<>>

\* C1: when convert_mp4_to_gif has exited, by return or by raising, close()
\* has been called on every clip handle that was created (file clips,
\* resized clips and the concatenated clip).
C1_EveryOpenedClipClosedAtExit ==
    (RunsCreator /\ pc \in {"handler", "main_after", "exit"})
        => \A h \in 1..Len(handles) : h \in closed

\* C2: with no input that exists and ends in .mp4 the video tool raises
\* FileNotFoundError before a clip is opened or a file written, with a
\* missing input path the rewriter raises FileNotFoundError before the
\* image is opened or a file written, and both exit with status 1.
C2_EmptyValidInputIsFatal ==
    /\ (PastValidation /\ ExistingMp4s(expanded_inputs) = <<>>)
          => /\ raised = "FileNotFoundError"
             /\ raised_from = "convert"
             /\ handles = <<>>
             /\ OutputUntouched
             /\ pc \in {"handler", "exit"}
             /\ pc = "exit" => exit_status = 1
    /\ (RunsLooper /\ ~argv.noargs /\ pc # "lmain"
            /\ ~LooperExists(argv.input))
          => /\ raised = "FileNotFoundError"
             /\ img_open = "never"
             /\ OutputUntouched
             /\ pc \in {"lhandler", "lexit"}
             /\ pc = "lexit" => exit_status = 1

C2_Witness ==
    /\ RunsCreator
    /\ pc = "exit"
    /\ Len(expanded_inputs) >= 2
    /\ ExistingMp4s(expanded_inputs) = <<>>
    /\ exit_status = 1

\* C3: the clips loaded and handed to the encoder are, in order, the inputs
\* that exist and end in .mp4 (any letter case); the others are skipped
\* with a warning, and the no-valid-input condition is raised only when no
\* valid input remains.
C3_LoadedClipsAreValidInputsInOrder ==
    PastValidation =>
        LET exp == ExistingMp4s(expanded_inputs)
            opened == SelectSeq(handles, LAMBDA h : h.kind = "file")
        IN  /\ valid_paths = exp
            /\ exp # <<>>
                  => ~(raised = "FileNotFoundError" /\ raised_from = "convert")
            /\ Len(opened) <= Len(exp)
            /\ \A k \in 1..Len(opened) : opened[k].path = exp[k]
            /\ encoded # <<>>
                  => [k \in 1..Len(encoded.clips) |->
                         handles[encoded.clips[k]].path] = exp
            /\ Len(exp) < Len(expanded_inputs)
                  => printed \cap {"warn_missing", "warn_not_mp4"} # {}

C3_Witness ==
    /\ RunsCreator
    /\ encoded # <<>>
    /\ Len(encoded.clips) = 2
    /\ handles[encoded.clips[1]].path = B_MP4
    /\ Len(expanded_inputs) > 2
    /\ "warn_not_mp4" \in printed

\* scale factor of a preset, in tenths: 0.5, 0.7, 1.0
PresetScale(q) == CASE q = "low" -> 5 [] q = "medium" -> 7 [] q = "high" -> 10

\* frame rate of a preset
PresetRate(q) == CASE q = "low" -> 8 [] q = "medium" -> 10 [] q = "high" -> 15

\* C4: the target width and height are even for every native size, quality
\* and requested width; without a requested width each is at most the
\* native dimension times the preset's scale factor; 640x480 at medium
\* gives 448x336.
C4_TargetGeometryEvenAndBounded ==
    pc = "geom_out" =>
        /\ target_size[1] % 2 = 0
        /\ target_size[2] % 2 = 0
        /\ (~WidthGiven(argv.width) /\ argv.quality \in QualityNames)
              => /\ 10 * target_size[1] <= PresetScale(argv.quality) * argv.dims[1]
                 /\ 10 * target_size[2] <= PresetScale(argv.quality) * argv.dims[2]
        /\ (argv.width = <<>> /\ argv.quality = "medium"
                /\ argv.dims = <<640, 480>>)
              => target_size = <<448, 336>>

C4_Witness ==
    /\ pc = "geom_out"
    /\ argv.dims = <<180, 90>>
    /\ argv.quality = "medium"
    /\ argv.width = <<>>
    /\ target_size = <<124, 62>>

\* C5: the frame rate handed to the encoder is the --fps argument when it
\* differs from 10 and the preset's rate (low 8, medium 10, high 15) when
\* it is 10; the preset's scale factor applies either way.
C5_EncoderFrameRate ==
    (RunsCreator /\ encoded # <<>>) =>
        /\ encoded.fps = IF argv.fps # 10 THEN argv.fps
                         ELSE PresetRate(argv.quality)
        /\ resize_factor = PresetScale(argv.quality)

C5_Witness ==
    /\ RunsCreator
    /\ encoded # <<>>
    /\ argv.fps = 12
    /\ argv.quality = "high"
    /\ encoded.fps = 12
    /\ resize_factor = 10

\* C6: the rewriter hands the encoder the n input frames in order, the i-th
\* with the i-th frame's declared duration or 100 ms when it declares none,
\* and repeat count 0; run on its own output it writes the same number of
\* frames with the same durations.
C6_RewriterKeepsFramesAndDurations ==
    (RunsLooper /\ encoded # <<>>) =>
        /\ Len(img.info) >= 1
        /\ encoded.frames = img.px
        /\ Len(encoded.durations) = Len(img.info)
        /\ \A k \in 1..Len(img.info) :
              encoded.durations[k] =
                  IF img.info[k] = <<>> THEN 100 ELSE img.info[k][1]
        /\ encoded.loop = 0
        /\ run = 2 => /\ encoded.frames = prev_out.frames
                      /\ encoded.durations = prev_out.durations

C6_Witness ==
    /\ RunsLooper
    /\ run = 2
    /\ encoded # <<>>
    /\ Len(encoded.frames) >= 2
    /\ encoded.durations[1] = 100
    /\ encoded.durations[2] = 40

\* the frame set of the running tool is fully assembled
FramesAssembled ==
    IF RunsCreator
    THEN /\ valid_paths # <<>>
         /\ Len(video_clips) = Len(valid_paths)
         /\ final_video # 0
    ELSE /\ img_open # "never"
         /\ Len(frames) = Len(img.info)
         /\ Len(durations) = Len(img.info)

\* C7: the output file is written only after the full frame set is
\* assembled, and a run that ends in a fatal condition leaves no partial
\* output file, also when the write itself fails.
C7_NoPartialOutputAfterFatal ==
    /\ outFile \in {"partial", "complete"} => FramesAssembled
    /\ (pc \in {"exit", "lexit"} /\ exit_status = 1) => outFile # "partial"

\* the clip as the video library opened it, before any resize
NativeOf(c) == IF c.kind = "resized" THEN handles[c.src] ELSE c

\* C8: when the clips are concatenated and encoded, every clip has the one
\* target geometry computed from the first valid clip; a clip whose native
\* size differs from it is a resized copy, a clip whose native size equals
\* it is the clip as opened.
C8_SingleTargetGeometry ==
    (RunsCreator /\ pc = "write") =>
        /\ target_size = TargetSize(argv.width, handles[1].size.dims,
                                    resize_factor)
        /\ \A k \in 1..Len(video_clips) :
              LET c == handles[video_clips[k]]
              IN  /\ c.size.dims = target_size
                  /\ NativeOf(c).size.dims # target_size => c.kind = "resized"
                  /\ NativeOf(c).size.dims = target_size => c.kind = "file"

C10_LoopCapturesFramesAndEndsOnEof ==
    /\ [](RunsLooper => /\ Len(frames) = Len(durations)
                        /\ pc = "lsave" => Len(frames) >= 1
                        /\ raised # "ValueError")
    /\ [][(RunsLooper /\ pc = "lseek" /\ img.pos = Len(img.info))
             => (pc' = "lsave" /\ raised' = "none")]_vars

C10_Witness ==
    /\ RunsLooper
    /\ pc = "lsave"
    /\ Len(frames) >= 2
    /\ Len(durations) = Len(frames)
    /\ img.pos = Len(img.info)

====
